---------------------------- MODULE Spec2Model ----------------------------
(***************************************************************************)
(* MapZenDL (src/main.py): a bounding box and a zoom level become a        *)
(* TileSet; one download_tile task per tile fetches the tile (from the     *)
(* cache or over HTTP) and puts (tile_index, bytes) on an asyncio.Queue;   *)
(* collect_tiles gathers the tasks and puts the sentinel None;             *)
(* process_tiles decodes every message into the canvas.                    *)
(*                                                                         *)
(* Coordinates.  The code works on floats; the model works on the grid of  *)
(* coordinates k * EARTH_CIRCUMFERENCE / HalfUnits, k \in -HalfUnits ..    *)
(* HalfUnits, and names a coordinate by its k.  On that grid              *)
(*   (EARTH_CIRCUMFERENCE + coord) / (2 * EARTH_CIRCUMFERENCE)             *)
(* is the exact rational (HalfUnits + k) / (2 * HalfUnits), so floor and   *)
(* modf are computed exactly with integer division (float rounding is not  *)
(* modelled).                                                              *)
(*                                                                         *)
(* Heights are counted in 1/256 m, so that blue / 256 stays an integer.    *)
(***************************************************************************)
EXTENDS Integers, Sequences, FiniteSets, TLC

\* ------------------------------------------------------------ bounds
\* Half the projected world, in grid units (the grid's resolution).
HalfUnits == 4
\* Zoom levels 0 .. MaxZoom are explored by the geometry specification.
MaxZoom == 3
\* The pipeline is run at most MaxRuns times against the same cache.
MaxRuns == 2
MaxPixels == 3      \* normalize_height_data is called on 1 .. MaxPixels values
MaxHeight == 2      \* each of them in 0 .. MaxHeight
MaxTiles == 4       \* the largest TileSet of the pipeline's inputs

\* --------------------------------------------------- program constants
\* A tile is 256 x 256 pixels (the literal 256 of TileSet and process_tiles).
TileSize == 256
\* The only status download_tile treats as success.
HTTP_OK == 200

VARIABLES
    bounding_box,   \* main: [left, bottom, right, top], in grid units
    zoom,           \* main: the zoom level read from the user
    tileset,        \* main: the TileSet, NoTileSet before its construction
    tiles,          \* main: list(enumerate(tileset.tiles())); tiles[i + 1] has index i
    pcMain,         \* main's position
    run,            \* which run of the program this is (1 ..)
    cache,          \* the files under CACHE_DIR: path -> bytes
    session,        \* the aiohttp.ClientSession of collect_tiles
    pcTask,         \* tile_index -> position of its download_tile task
    image_data,     \* tile_index -> the body the task read (NoData before)
    requests,       \* tile_index -> HTTP GETs sent for it in this run
    responses,      \* tile_index -> status of the response (0 before it arrives)
    queue,          \* the asyncio.Queue: messages <<tile_index, bytes>> and None
    pcProducer,     \* collect_tiles' position
    pcConsumer,     \* process_tiles' position
    output_image,   \* process_tiles' canvas: block origin <<x, y>> -> height
    t,              \* process_tiles' progress counter (tqdm's t.n)
    cachedBefore,   \* history: the tiles earlier runs fetched successfully
    probe           \* the argument and the result of one call of a pure function

vars == <<bounding_box, zoom, tileset, tiles, pcMain, run, cache, session,
          pcTask, image_data, requests, responses, queue, pcProducer,
          pcConsumer, output_image, t, cachedBefore, probe>>

pipelineVars == <<cache, session, pcTask, image_data, requests, responses,
                  queue, pcProducer, pcConsumer, output_image, t>>

NoTileSet == [kind |-> "none"]
NoProbe == [kind |-> "none"]

\* ------------------------------------------------ integer conversions
\* ndarray.astype(np.uint32) of an integral value, and np.uint32 arithmetic:
\* the value modulo 2^32, written with its two 16-bit halves.
AsUint32(v) == (v % 65536) + 65536 * ((v \div 65536) % 65536)

\* ndarray.astype(np.uint8) of an integral value in the range of the model.
AsUint8(v) == v % 256

\* np.power(2, zoom)
RECURSIVE Power2(_)
Power2(z) == IF z = 0 THEN 1 ELSE 2 * Power2(z - 1)

\* ------------------------------------------------ coordinate projector
\* The two components before floor/modf, as numerators over 2 * HalfUnits.
ScaledX(coord, z) == (HalfUnits + coord[1]) * Power2(z)
ScaledY(coord, z) == (HalfUnits - coord[2]) * Power2(z)

\* A plausible slip in epsg_3857_to_tile: the row counted from the south.
epsg_3857_to_tile_NoFlip(coord, z) ==
    << AsUint32(ScaledX(coord, z) \div (2 * HalfUnits)),
       AsUint32(((HalfUnits + coord[2]) * Power2(z)) \div (2 * HalfUnits)) >>

\* A plausible slip in epsg_3857_to_tile: np.ceil in place of np.floor.
epsg_3857_to_tile_Ceil(coord, z) ==
    << AsUint32(-((-ScaledX(coord, z)) \div (2 * HalfUnits))),
       AsUint32(-((-ScaledY(coord, z)) \div (2 * HalfUnits))) >>

\* epsg_3857_to_tile: np.floor(output).astype(np.uint32)
epsg_3857_to_tile(coord, z) ==
    << AsUint32(ScaledX(coord, z) \div (2 * HalfUnits)),
       AsUint32(ScaledY(coord, z) \div (2 * HalfUnits)) >>

\* np.modf(output)[0] * 256, truncated by astype(np.uint8).
epsg_3857_to_pixel(coord, z) ==
    << AsUint8(((ScaledX(coord, z) % (2 * HalfUnits)) * TileSize) \div (2 * HalfUnits)),
       AsUint8(((ScaledY(coord, z) % (2 * HalfUnits)) * TileSize) \div (2 * HalfUnits)) >>

\* ------------------------------------------------------------ TileSet
\* TileSet.__init__.  Line 70 reads bounding_box[:2] a second time, so
\* right_pixel and top_pixel start from the bottom-left corner's offsets.
TileSetInit(box, z) ==
    LET bl == epsg_3857_to_tile(<<box[1], box[2]>>, z)
        tr == epsg_3857_to_tile(<<box[3], box[4]>>, z)
        blp == epsg_3857_to_pixel(<<box[1], box[2]>>, z)
        trp == epsg_3857_to_pixel(<<box[1], box[2]>>, z)
        w == AsUint32(tr[1] - bl[1] + 1)
        h == AsUint32(bl[2] - tr[2] + 1)
    IN  [kind |-> "tileset", zoom |-> z,
         left |-> bl[1], bottom |-> bl[2], right |-> tr[1], top |-> tr[2],
         width |-> w, height |-> h,
         left_pixel |-> blp[1], top_pixel |-> trp[2],
         right_pixel |-> AsUint32(trp[1] + (w - 1) * TileSize),
         bottom_pixel |-> AsUint32(blp[2] + (h - 1) * TileSize)]

\* TileSet.count
count(ts) == AsUint32(ts.width * ts.height)

\* TileSet.final_resolution
final_resolution(ts) == <<ts.width * TileSize, ts.height * TileSize>>

\* TileSet.tiles: the inner loop, for x in range(left, right + 1), from x on.
RECURSIVE TilesInner(_, _, _)
TilesInner(ts, y, x) ==
    IF x >= ts.right + 1 THEN <<>>
    ELSE <<(<<ts.zoom, x, y>>)>> \o TilesInner(ts, y, x + 1)

\* TileSet.tiles: the outer loop, for y in range(top, bottom + 1), from y on.
RECURSIVE TilesOuter(_, _)
TilesOuter(ts, y) ==
    IF y >= ts.bottom + 1 THEN <<>>
    ELSE TilesInner(ts, y, ts.left) \o TilesOuter(ts, y + 1)

\* A plausible slip in TileSet.tiles: the loops nested the other way round.
RECURSIVE TilesColumn(_, _, _)
TilesColumn(ts, x, y) ==
    IF y >= ts.bottom + 1 THEN <<>>
    ELSE <<(<<ts.zoom, x, y>>)>> \o TilesColumn(ts, x, y + 1)

RECURSIVE TilesColumnMajor(_, _)
TilesColumnMajor(ts, x) ==
    IF x >= ts.right + 1 THEN <<>>
    ELSE TilesColumn(ts, x, ts.top) \o TilesColumnMajor(ts, x + 1)

TileSetTiles_ColumnMajor(ts) == TilesColumnMajor(ts, ts.left)

\* TileSet.tiles
TileSetTiles(ts) == TilesOuter(ts, ts.top)

\* ------------------------------------------------- cache and service
\* tile_coords_to_filepath: "/".join(map(str, coordinates)) + ".png"
\* A plausible slip in tile_coords_to_filepath: the row left out of the path.
tile_coords_to_filepath_NoY(coordinates) ==
    ToString(coordinates[1]) \o "/" \o ToString(coordinates[2]) \o ".png"

tile_coords_to_filepath(coordinates) ==
    ToString(coordinates[1]) \o "/" \o ToString(coordinates[2]) \o "/"
        \o ToString(coordinates[3]) \o ".png"

\* A plausible slip in download_tile: the lookup never finds the file.
is_file_Never(path) == FALSE

\* save_path.is_file()
is_file(path) == path \in DOMAIN cache

\* The tile service's content for a tile: a PNG, named here by the colour
\* <<red, green, blue>> of its pixels.  Distinct tiles of a TileSet differ,
\* and every tile decodes to a height above 0.
ServiceBody(coords) == <<129 + coords[2], coords[3], coords[1]>>

\* The statuses the tile service may answer with.
Statuses == {HTTP_OK, 404}

\* Image.open succeeds on a complete PNG only; a file cut short by a failed
\* write is a proper prefix of the body.
IsImage(data) == Len(data) = 3

\* ------------------------------------------------------------ decoder
\* A plausible slip in process_tiles: red * 256 kept in the uint8 of the image.
Heightmap_Uint8(rgb) ==
    LET red_green == (((rgb[1] * 256) % 256) + rgb[2]) % 256
        height == red_green * 256 + rgb[3] - 32768 * 256
    IN  IF height < 0 THEN 0 ELSE height

\* process_tiles lines 153-154, on one pixel, in 1/256 m.  image_array is
\* uint8; red * 256 and + green are computed in uint16, the rest in float64.
Heightmap(rgb) ==
    LET red_green == (((rgb[1] * 256) % 65536) + rgb[2]) % 65536
        height == red_green * 256 + rgb[3] - 32768 * 256
    IN  IF height < 0 THEN 0 ELSE height

\* ------------------------------------------------------------- consumer
\* np.zeros((concat_dimensions[0] * 256, concat_dimensions[1] * 256)), as
\* 256 x 256 blocks named by their origin <<x, y>>.
ZeroImage(concat_dimensions) ==
    [o \in {<<bx * TileSize, by * TileSize>> :
                bx \in 0 .. concat_dimensions[1] - 1,
                by \in 0 .. concat_dimensions[2] - 1} |-> 0]

\* A plausible slip in process_tiles: the height as the row length.
PlaceX_ByHeight(tile_index, concat_dimensions) ==
    (tile_index % concat_dimensions[2]) * TileSize

\* x = int(tile_index % concat_dimensions[0] * 256)
PlaceX(tile_index, concat_dimensions) ==
    (tile_index % concat_dimensions[1]) * TileSize

\* A plausible slip in process_tiles: the row taken from the other extent.
PlaceY_ByHeight(tile_index, concat_dimensions) ==
    (tile_index \div concat_dimensions[2]) * TileSize

\* y = int(tile_index // concat_dimensions[0] * 256)
PlaceY(tile_index, concat_dimensions) ==
    (tile_index \div concat_dimensions[1]) * TileSize

NoneMsg == [kind |-> "None", tile_index |-> 0, data |-> <<>>]
TileMsg(tile_index, data) == [kind |-> "tile", tile_index |-> tile_index, data |-> data]

\* A plausible slip in process_tiles: the tile placed by its arrival order.
MsgIndex_Arrival(input, n) == n

\* tile_index, image_data = input
MsgIndex(input, n) == input.tile_index

\* A plausible slip in process_tiles: the sentinel is not told from a tile.
IsSentinel_Never(input) == FALSE

\* if input is None
IsSentinel(input) == input = NoneMsg

\* The while loop of process_tiles from one resumption to the next
\* suspension: queue.get() returns without suspending while the queue holds
\* a message.  An undecodable body makes Image.open raise; a block that does
\* not fit the canvas makes the slice assignment raise.
RECURSIVE ProcessLoop(_, _, _, _)
ProcessLoop(q, img, n, concat_dimensions) ==
    IF q = <<>> THEN [queue |-> q, output_image |-> img, t |-> n, pc |-> "get"]
    ELSE LET input == Head(q)
             x == PlaceX(MsgIndex(input, n), concat_dimensions)
             y == PlaceY(MsgIndex(input, n), concat_dimensions)
         IN  IF IsSentinel(input)
             THEN [queue |-> Tail(q), output_image |-> img, t |-> n, pc |-> "done"]
             ELSE IF ~IsImage(input.data) \/ <<x, y>> \notin DOMAIN img
             THEN [queue |-> Tail(q), output_image |-> img, t |-> n, pc |-> "raised"]
             ELSE ProcessLoop(Tail(q),
                              [img EXCEPT ![<<x, y>>] = Heightmap(input.data)],
                              n + 1, concat_dimensions)

\* -------------------------------------------------------------- inputs
NoTasks == <<>>
Indices == DOMAIN pcTask
Coords(i) == tiles[i + 1]
PathOf(i) == tile_coords_to_filepath(Coords(i))

\* The task of tile_index i ended normally having emitted its tile.
Succeeded(i) ==
    pcTask[i] = "done" /\ (requests[i] = 0 \/ responses[i] = HTTP_OK)

\* The task of tile_index i got a non-200 response.
Failed(i) == responses[i] # 0 /\ responses[i] # HTTP_OK

InitPipeline ==
    /\ tileset = NoTileSet
    /\ tiles = <<>>
    /\ pcMain = "input"
    /\ run = 1
    /\ cache = <<>>
    /\ session = "none"
    /\ pcTask = NoTasks
    /\ image_data = NoTasks
    /\ requests = NoTasks
    /\ responses = NoTasks
    /\ queue = <<>>
    /\ pcProducer = "none"
    /\ pcConsumer = "none"
    /\ output_image = <<>>
    /\ t = 0
    /\ cachedBefore = {}

\* The boxes the pipeline is run on: TileSets of 1x1, 2x1, 1x2 and 2x2 tiles.
PipelineInputs ==
    { <<<<0, 1, 1, 2>>, 2>>, <<<<-1, 1, 1, 2>>, 2>>,
      <<<<0, 0, 1, 2>>, 2>>, <<<<-1, 0, 1, 2>>, 2>> }

\* Every box of the grid with right > left and top > bottom.
GridBoxes ==
    { b \in (-HalfUnits .. HalfUnits) \X (-HalfUnits .. HalfUnits)
            \X (-HalfUnits .. HalfUnits) \X (-HalfUnits .. HalfUnits) :
        b[3] > b[1] /\ b[4] > b[2] }

Init ==
    /\ \E in \in PipelineInputs : bounding_box = in[1] /\ zoom = in[2]
    /\ probe = NoProbe
    /\ InitPipeline

InitGeo ==
    /\ bounding_box \in GridBoxes
    /\ zoom \in 0 .. MaxZoom
    /\ probe = NoProbe
    /\ InitPipeline

\* ---------------------------------------------------------------- main
\* tileset = TileSet(bounding_box, zoom)
Construct ==
    /\ pcMain = "input"
    /\ tileset' = TileSetInit(bounding_box, zoom)
    /\ pcMain' = "tileset"
    /\ UNCHANGED <<probe, bounding_box, zoom, tiles, run, cachedBefore, pipelineVars>>

\* tiles = list(enumerate(tileset.tiles()))
Enumerate ==
    /\ pcMain = "tileset"
    /\ tiles' = TileSetTiles(tileset)
    /\ pcMain' = "enumerated"
    /\ UNCHANGED <<probe, bounding_box, zoom, tileset, run, cachedBefore, pipelineVars>>

\* queue = asyncio.Queue(); the producer and consumer tasks are created.
StartPipeline ==
    /\ pcMain = "enumerated"
    /\ queue' = <<>>
    /\ pcProducer' = "start"
    /\ pcConsumer' = "start"
    /\ pcMain' = "gather"
    /\ UNCHANGED <<probe, bounding_box, zoom, tileset, tiles, run, cachedBefore, cache,
                   session, pcTask, image_data, requests, responses,
                   output_image, t>>

\* ------------------------------------------------------- collect_tiles
\* The session is opened and tqdm.gather turns every download_tile
\* coroutine into a task.
CollectStart ==
    /\ pcProducer = "start"
    /\ session' = "open"
    /\ pcTask' = [i \in 0 .. Len(tiles) - 1 |-> "start"]
    /\ image_data' = [i \in 0 .. Len(tiles) - 1 |-> <<>>]
    /\ requests' = [i \in 0 .. Len(tiles) - 1 |-> 0]
    /\ responses' = [i \in 0 .. Len(tiles) - 1 |-> 0]
    /\ pcProducer' = "gather"
    /\ UNCHANGED <<probe, bounding_box, zoom, tileset, tiles, pcMain, run, cachedBefore,
                   cache, queue, pcConsumer, output_image, t>>

\* A plausible slip in collect_tiles: the sentinel put without the gather.
GatherDone_NoWait == TRUE

\* A plausible slip in collect_tiles: waiting for the first task only.
GatherDone_FirstCompleted == \E i \in Indices : pcTask[i] = "done"

\* A plausible slip in collect_tiles: the exceptions of the tasks collected
\* as results (return_exceptions) instead of re-raised.
GatherDone_ReturnExceptions ==
    \A i \in Indices : pcTask[i] \in {"done", "raised"}

\* await tqdm.gather(*tasks) returns once every task has ended normally.
GatherDone == \A i \in Indices : pcTask[i] = "done"

\* The gather returned: the session is closed and the sentinel is put.
CollectDone ==
    /\ pcProducer = "gather"
    /\ GatherDone
    /\ session' = "closed"
    /\ queue' = Append(queue, NoneMsg)
    /\ pcProducer' = "done"
    /\ UNCHANGED <<probe, bounding_box, zoom, tileset, tiles, pcMain, run, cachedBefore,
                   cache, pcTask, image_data, requests, responses, pcConsumer,
                   output_image, t>>

\* ------------------------------------------------------- download_tile
\* A plausible slip in download_tile: a cached tile decoded and placed in
\* the canvas by the fetch task itself instead of being put on the queue.
DownloadStart_WritesCanvas(i) ==
    /\ pcTask[i] = "start"
    /\ \/ /\ is_file(PathOf(i)) /\ IsImage(cache[PathOf(i)])
          /\ pcConsumer \in {"get", "done"}
          /\ output_image' =
                [output_image EXCEPT
                    ![<<PlaceX(i, <<tileset.width, tileset.height>>),
                        PlaceY(i, <<tileset.width, tileset.height>>)>>] =
                        Heightmap(cache[PathOf(i)])]
          /\ pcTask' = [pcTask EXCEPT ![i] = "done"]
          /\ UNCHANGED requests
       \/ /\ ~is_file(PathOf(i))
          /\ requests' = [requests EXCEPT ![i] = @ + 1]
          /\ pcTask' = [pcTask EXCEPT ![i] = "get"]
          /\ UNCHANGED output_image
    /\ UNCHANGED <<probe, bounding_box, zoom, tileset, tiles, pcMain, run, cachedBefore,
                   cache, session, image_data, responses, pcProducer,
                   pcConsumer, queue, t>>

\* Lines 114-123: the cache is looked up.  On a hit the file is read and
\* put on the queue, which does not suspend: the task ends in this step.
\* On a miss the GET is sent.  mkdir, open and read may raise OSError.
DownloadStart(i) ==
    /\ pcTask[i] = "start"
    /\ \/ /\ is_file(PathOf(i))
          /\ queue' = Append(queue, TileMsg(i, cache[PathOf(i)]))
          /\ pcTask' = [pcTask EXCEPT ![i] = "done"]
          /\ UNCHANGED requests
       \/ /\ ~is_file(PathOf(i))
          /\ requests' = [requests EXCEPT ![i] = @ + 1]
          /\ pcTask' = [pcTask EXCEPT ![i] = "get"]
          /\ UNCHANGED queue
       \/ /\ pcTask' = [pcTask EXCEPT ![i] = "raised"]
          /\ UNCHANGED <<queue, requests>>
    /\ UNCHANGED <<probe, bounding_box, zoom, tileset, tiles, pcMain, run, cachedBefore,
                   cache, session, image_data, responses, pcProducer,
                   pcConsumer, output_image, t>>

\* A plausible slip in download_tile: every response is taken for a tile.
IsSuccess_Any(status) == TRUE

\* if response.status == 200
IsSuccess(status) == status = HTTP_OK

\* A plausible slip in download_tile: a failed tile is fetched again.
AfterFailure_Retry == "start"

\* The else branch only prints: the task ends.
AfterFailure == "done"

\* A plausible slip in download_tile: the body is put but never saved.
WriteCache_Skip(path, data) == cache

\* with open(save_path, "wb") as f: f.write(image_data)
WriteCache(path, data) == (path :> data) @@ cache

\* Lines 123-133: the response arrives.  On 200 the body is read, put on the
\* queue and then written to the cache: open may raise (nothing is written)
\* and write may raise (a proper prefix of the body is left in the file).
\* On any other status the task prints and ends.  The two awaits of the 200
\* path (the response, then its body) are one step: nothing but the task's
\* own locals changes between them.
ResponseArrives(i) ==
    /\ pcTask[i] = "get"
    /\ \E status \in Statuses :
          /\ responses' = [responses EXCEPT ![i] = status]
          /\ IF IsSuccess(status)
             THEN LET body == ServiceBody(Coords(i))
                  IN  /\ image_data' = [image_data EXCEPT ![i] = body]
                      /\ queue' = Append(queue, TileMsg(i, body))
                      /\ \/ /\ cache' = WriteCache(PathOf(i), body)
                            /\ pcTask' = [pcTask EXCEPT ![i] = "done"]
                         \/ /\ cache' = cache
                            /\ pcTask' = [pcTask EXCEPT ![i] = "raised"]
                         \/ /\ cache' = WriteCache(PathOf(i),
                                                   SubSeq(body, 1, Len(body) - 1))
                            /\ pcTask' = [pcTask EXCEPT ![i] = "raised"]
             ELSE /\ pcTask' = [pcTask EXCEPT ![i] = AfterFailure]
                  /\ UNCHANGED <<image_data, queue, cache>>
    /\ UNCHANGED <<probe, bounding_box, zoom, tileset, tiles, pcMain, run, cachedBefore,
                   session, requests, pcProducer, pcConsumer, output_image, t>>

\* ------------------------------------------------------- process_tiles
\* process_tiles runs from its start, or from the queue.get() it is
\* suspended in, until the queue is empty, the sentinel is read or it raises.
ConsumerRun ==
    /\ \/ pcConsumer = "start"
       \/ pcConsumer = "get" /\ queue # <<>>
    /\ LET concat_dimensions == <<tileset.width, tileset.height>>
           img == IF pcConsumer = "start" THEN ZeroImage(concat_dimensions)
                                         ELSE output_image
           r == ProcessLoop(queue, img, t, concat_dimensions)
       IN  /\ queue' = r.queue
           /\ output_image' = r.output_image
           /\ t' = r.t
           /\ pcConsumer' = r.pc
    /\ UNCHANGED <<probe, bounding_box, zoom, tileset, tiles, pcMain, run, cachedBefore,
                   cache, session, pcTask, image_data, requests, responses,
                   pcProducer>>

\* ------------------------------------------------------- main, the end
\* The shape of the canvas process_tiles allocates: axis 0 runs over
\* width * 256 columns (the horizontal axis), axis 1 over height * 256 rows.
CanvasShape(ts) == <<ts.width * TileSize, ts.height * TileSize>>

\* Line 210: the slices main takes of axis 0 and of axis 1 of the canvas.
CropSlices(ts) ==
    << <<ts.top_pixel, ts.bottom_pixel>>, <<ts.left_pixel, ts.right_pixel>> >>

\* The length of array[start:stop] on an axis of the given extent.
SliceLen(slice, extent) ==
    LET Clip(v) == IF v > extent THEN extent ELSE v
    IN  IF Clip(slice[2]) > Clip(slice[1]) THEN Clip(slice[2]) - Clip(slice[1])
        ELSE 0

\* The shape of the cropped raster of line 210.
CropShape(ts) ==
    << SliceLen(CropSlices(ts)[1], CanvasShape(ts)[1]),
       SliceLen(CropSlices(ts)[2], CanvasShape(ts)[2]) >>

\* asyncio.gather(producer, consumer) returns: main crops, normalizes, saves.
MainDone ==
    /\ pcMain = "gather"
    /\ pcProducer = "done"
    /\ pcConsumer = "done"
    /\ pcMain' = "done"
    /\ UNCHANGED <<probe, bounding_box, zoom, tileset, tiles, run, cachedBefore,
                   pipelineVars>>

\* The tiles whose download_tile task ended normally having emitted a tile.
FetchedNow == {Coords(i) : i \in {j \in Indices : Succeeded(j)}}

\* The run ends with an exception.  Either tqdm.gather re-raises the
\* exception of a download_tile task (collect_tiles leaves its session and
\* ends with it, no sentinel is put) or process_tiles raised; then
\* asyncio.gather(producer, consumer) re-raises in main, asyncio.run cancels
\* every pending task and the process exits: only the cache survives.
MainAbort ==
    /\ pcMain = "gather"
    /\ \/ pcProducer = "gather" /\ \E i \in Indices : pcTask[i] = "raised"
       \/ pcConsumer = "raised"
    /\ pcMain' = "aborted"
    /\ cachedBefore' = cachedBefore \cup FetchedNow
    /\ session' = "none"
    /\ pcTask' = NoTasks
    /\ image_data' = NoTasks
    /\ requests' = NoTasks
    /\ responses' = NoTasks
    /\ queue' = <<>>
    /\ pcProducer' = "none"
    /\ pcConsumer' = "none"
    /\ output_image' = <<>>
    /\ t' = 0
    /\ UNCHANGED <<probe, bounding_box, zoom, tileset, tiles, run, cache>>

\* The program is started again on the same input; only the cache survives.
NewRun ==
    /\ pcMain \in {"done", "aborted"}
    /\ run < MaxRuns
    /\ run' = run + 1
    /\ cachedBefore' = cachedBefore \cup FetchedNow
    /\ tileset' = NoTileSet
    /\ tiles' = <<>>
    /\ pcMain' = "input"
    /\ session' = "none"
    /\ pcTask' = NoTasks
    /\ image_data' = NoTasks
    /\ requests' = NoTasks
    /\ responses' = NoTasks
    /\ queue' = <<>>
    /\ pcProducer' = "none"
    /\ pcConsumer' = "none"
    /\ output_image' = <<>>
    /\ t' = 0
    /\ UNCHANGED <<probe, bounding_box, zoom, cache>>

Next ==
    \/ Construct
    \/ Enumerate
    \/ StartPipeline
    \/ CollectStart
    \/ CollectDone
    \/ \E i \in Indices : DownloadStart(i)
    \/ \E i \in Indices : ResponseArrives(i)
    \/ ConsumerRun
    \/ MainDone
    \/ MainAbort
    \/ NewRun

Spec == Init /\ [][Next]_vars

NextGeo == Construct \/ Enumerate

\* --------------------------------------- the pipeline without I/O errors
\* The steps of download_tile in which no mkdir, open, read or write raises.
FetchStep(i) == DownloadStart(i) /\ pcTask'[i] # "raised"
ResponseStep(i) == ResponseArrives(i) /\ pcTask'[i] # "raised"

NextLive ==
    \/ Construct
    \/ Enumerate
    \/ StartPipeline
    \/ CollectStart
    \/ CollectDone
    \/ \E i \in Indices : FetchStep(i)
    \/ \E i \in Indices : ResponseStep(i)
    \/ ConsumerRun
    \/ MainDone
    \/ NewRun

\* The event loop runs every task that is ready, and every request sent
\* is answered.  Nothing obliges the user to start the program again.
FairLive ==
    /\ WF_vars(Construct)
    /\ WF_vars(Enumerate)
    /\ WF_vars(StartPipeline)
    /\ WF_vars(CollectStart)
    /\ WF_vars(CollectDone)
    /\ WF_vars(ConsumerRun)
    /\ WF_vars(MainDone)
    /\ \A i \in 0 .. MaxTiles - 1 :
          /\ WF_vars(i \in Indices /\ FetchStep(i))
          /\ WF_vars(i \in Indices /\ ResponseStep(i))

SpecLive == Init /\ [][NextLive]_vars /\ FairLive

SpecGeo == InitGeo /\ [][NextGeo]_vars

\* ------------------------------------------------------ pure functions
\* The byte values a pixel's channels are drawn from.
Bytes == {0, 1, 127, 128, 129, 255}
GridCoords == (-HalfUnits .. HalfUnits) \X (-HalfUnits .. HalfUnits)

Heights == UNION {[1 .. n -> 0 .. MaxHeight] : n \in 1 .. MaxPixels}

\* The percentiles 0.005 and 99.995 of lines 46-47 lie (n-1)/PercentileScale
\* from the ends of the sorted data; values are kept in 1/PercentileScale.
PercentileScale == 20000

RECURSIVE Sum(_)
Sum(data) == IF data = <<>> THEN 0 ELSE Head(data) + Sum(Tail(data))

RECURSIVE SumSq(_)
SumSq(data) ==
    IF data = <<>> THEN 0 ELSE Head(data) * Head(data) + SumSq(Tail(data))

RECURSIVE Insert(_, _)
Insert(x, sorted) ==
    IF sorted = <<>> THEN <<x>>
    ELSE IF x <= Head(sorted) THEN <<x>> \o sorted
    ELSE <<Head(sorted)>> \o Insert(x, Tail(sorted))

RECURSIVE Sort(_)
Sort(data) == IF data = <<>> THEN <<>> ELSE Insert(Head(data), Sort(Tail(data)))

\* distance / PercentileScale <= std_dev, where distanceN is n times the
\* distance and varianceNN is n * n times the variance (lines 53 and 56).
WithinStd(distanceN, varianceNN) ==
    (distanceN * distanceN + PercentileScale * PercentileScale - 1)
        \div (PercentileScale * PercentileScale) <= varianceNN

\* normalize_height_data, lines 44-62. A value of the result is a fraction
\* <<numerator, denominator>>; <<0, 0>> is the NaN that 0.0 / 0.0 gives.
normalize_height_data(data) ==
    LET n == Len(data)
        sorted == Sort(data)
        min_window ==
            IF n = 1 THEN PercentileScale * sorted[1]
            ELSE PercentileScale * sorted[1] + (sorted[2] - sorted[1]) * (n - 1)
        max_window ==
            IF n = 1 THEN PercentileScale * sorted[n]
            ELSE PercentileScale * sorted[n] - (sorted[n] - sorted[n - 1]) * (n - 1)
        varianceNN == n * SumSq(data) - Sum(data) * Sum(data)
        actual_min == PercentileScale * sorted[1]
        actual_max == PercentileScale * sorted[n]
        min_val == IF WithinStd((min_window - actual_min) * n, varianceNN)
                   THEN actual_min ELSE min_window
        max_val == IF WithinStd((actual_max - max_window) * n, varianceNN)
                   THEN actual_max ELSE max_window
        span == max_val - min_val
        Normalized(x) ==
            LET above == PercentileScale * x - min_val
            IN  IF span = 0
                THEN IF above = 0 THEN <<0, 0>>
                     ELSE IF above > 0 THEN <<1, 1>> ELSE <<0, 1>>
                ELSE IF above <= 0 THEN <<0, 1>>
                     ELSE IF above >= span THEN <<1, 1>> ELSE <<above, span>>
    IN  [min_val |-> min_val, max_val |-> max_val,
         normalized_data |-> [k \in 1 .. n |-> Normalized(data[k])]]

InitFn ==
    /\ bounding_box = <<0, 0, 0, 0>>
    /\ zoom = 0
    /\ InitPipeline
    /\ \/ \E c1, c2 \in GridCoords, z \in 0 .. MaxZoom :
              probe = [kind |-> "coords", in |-> <<c1, c2, z>>]
       \/ \E rgb \in Bytes \X Bytes \X Bytes :
              probe = [kind |-> "pixel", in |-> rgb]
       \/ \E data \in Heights : probe = [kind |-> "data", in |-> data]

\* epsg_3857_to_tile is called on two coordinates at one zoom.
ProjectTiles ==
    /\ probe.kind = "coords"
    /\ probe' = [kind |-> "tiles", in |-> probe.in,
                 out |-> <<epsg_3857_to_tile(probe.in[1], probe.in[3]),
                           epsg_3857_to_tile(probe.in[2], probe.in[3])>>]
    /\ UNCHANGED <<bounding_box, zoom, tileset, tiles, pcMain, run,
                   cachedBefore, pipelineVars>>

\* Lines 153-154 are applied to one pixel.
DecodePixel ==
    /\ probe.kind = "pixel"
    /\ probe' = [kind |-> "height", in |-> probe.in, out |-> Heightmap(probe.in)]
    /\ UNCHANGED <<bounding_box, zoom, tileset, tiles, pcMain, run,
                   cachedBefore, pipelineVars>>

\* normalize_height_data is called on the cropped canvas.
Normalize ==
    /\ probe.kind = "data"
    /\ probe' = [kind |-> "normalized", in |-> probe.in,
                 out |-> normalize_height_data(probe.in)]
    /\ UNCHANGED <<bounding_box, zoom, tileset, tiles, pcMain, run,
                   cachedBefore, pipelineVars>>

NextFn ==
    \/ ProjectTiles
    \/ DecodePixel
    \/ Normalize

SpecFn == InitFn /\ [][NextFn]_vars

\* ------------------------------------------------------------- claims
\* The bytes the task of tile_index i put on the queue: the cached file on
\* a hit, the response body otherwise.
Emitted(i) == IF requests[i] = 0 THEN cache[PathOf(i)] ELSE image_data[i]

Allocated == pcConsumer \in {"get", "done", "raised"}
InQueue(i) == \E k \in 1 .. Len(queue) :
                  queue[k].kind = "tile" /\ queue[k].tile_index = i
Range(seq) == {seq[k] : k \in DOMAIN seq}
Sentinels == {k \in 1 .. Len(queue) : queue[k] = NoneMsg}
\* The tile_index whose block has origin o, and the origin of tile_index i.
IndexAt(o) == (o[2] \div TileSize) * tileset.width + (o[1] \div TileSize)
OriginOf(i) == <<(i % tileset.width) * TileSize, (i \div tileset.width) * TileSize>>

\* C1: when the consumer has read the sentinel and returned, every tile whose
\* fetch succeeded (cache hit or HTTP 200) has left the queue and its decoded
\* height is in the canvas; nothing is left on the queue, and the progress
\* counter equals the number of fetched tiles.
C1_AllFetchedProcessed ==
    pcConsumer = "done" =>
        /\ queue = <<>>
        /\ \A i \in Indices :
              /\ pcTask[i] = "done"
              /\ Succeeded(i) =>
                    \E o \in DOMAIN output_image :
                        output_image[o] = Heightmap(Emitted(i))
        /\ t = Cardinality({i \in Indices : Succeeded(i)})

C1_Witness ==
    /\ pcConsumer = "done"
    /\ Len(tiles) = 4
    /\ \E i, j \in Indices :
          /\ Succeeded(i) /\ requests[i] = 0
          /\ Succeeded(j) /\ requests[j] = 1

\* C2: the canvas is a function of the TileSet and the per-tile fetch
\* outcomes alone.  At every moment a block holds 0 or the decoded bytes of
\* the tile with the block's own index, every message on the queue pairs a
\* tile_index with the bytes fetched for it, and when the consumer has
\* returned each block holds the outcome of its own tile, whatever the order
\* the tasks completed in.
C2_OrderIndependent ==
    /\ \A k \in 1 .. Len(queue) :
          queue[k].kind = "tile" => queue[k].data = Emitted(queue[k].tile_index)
    /\ Allocated =>
          \A o \in DOMAIN output_image :
              \/ output_image[o] = 0 /\ pcConsumer # "done"
              \/ output_image[o] =
                    IF pcTask[IndexAt(o)] \in {"done", "raised"}
                       /\ (requests[IndexAt(o)] = 0 \/ responses[IndexAt(o)] = HTTP_OK)
                    THEN Heightmap(Emitted(IndexAt(o)))
                    ELSE 0

\* A later tile has been placed while an earlier one is still being fetched,
\* and two tiles wait on the queue in the reverse of their index order.
C2_Witness ==
    /\ pcConsumer = "get"
    /\ Indices = 0 .. 3
    /\ pcTask[0] = "get"
    /\ output_image[OriginOf(3)] # 0
    /\ Len(queue) = 2
    /\ queue[1].tile_index = 2 /\ queue[2].tile_index = 1

\* C3: when the run completes, the blocks left at the background value 0 are
\* exactly the blocks of the tiles whose GET was answered with a non-200
\* status, and every other block holds the decoded data of its tile.
C3_FailedTilesStayZero ==
    pcMain = "done" =>
        /\ {o \in DOMAIN output_image : output_image[o] = 0}
              = {OriginOf(i) : i \in {j \in Indices : Failed(j)}}
        /\ \A i \in Indices :
              ~Failed(i) => output_image[OriginOf(i)] = Heightmap(Emitted(i))

\* A 2x2 run that completed with exactly one failed tile.
C3_Witness ==
    /\ pcMain = "done"
    /\ tileset.width = 2 /\ tileset.height = 2
    /\ Cardinality({i \in Indices : Failed(i)}) = 1
    /\ Cardinality({o \in DOMAIN output_image : output_image[o] # 0}) = 3

\* C4: at most one sentinel is ever put in a run, it is put only when every
\* download_tile task has ended, no tile message stands behind it on the
\* queue, and the consumer has not returned while a task may still emit.
C4_SingleSentinelAfterTasks ==
    /\ Cardinality(Sentinels) <= 1
    /\ (Sentinels # {} \/ pcConsumer = "done") =>
          /\ pcProducer = "done"
          /\ \A i \in Indices : pcTask[i] = "done"
          /\ \A k \in Sentinels : k = Len(queue)
          /\ ~(Sentinels # {} /\ pcConsumer = "done")
    /\ pcProducer = "done" => (Sentinels # {} \/ pcConsumer = "done")

\* The sentinel stands on the queue behind a tile message.
C4_Witness ==
    /\ Len(queue) >= 2
    /\ queue[Len(queue)] = NoneMsg
    /\ queue[1].kind = "tile"
    /\ Len(tiles) = 4

\* C5: the tile with coordinate (zoom, x, y) and index i is placed at the
\* horizontal offset (i mod width) * 256 = (x - left) * 256 and the vertical
\* offset (i div width) * 256 = (y - top) * 256; the block lies inside the
\* canvas of width * 256 by height * 256, and once the consumer has returned
\* the block at that offset holds the tile's decoded data.
C5_Placement ==
    pcMain \in {"gather", "done"} =>
        LET concat_dimensions == <<tileset.width, tileset.height>>
        IN  \A i \in 0 .. Len(tiles) - 1 :
              LET x == PlaceX(i, concat_dimensions)
                  y == PlaceY(i, concat_dimensions)
              IN  /\ x = (tiles[i + 1][2] - tileset.left) * TileSize
                  /\ y = (tiles[i + 1][3] - tileset.top) * TileSize
                  /\ x = (i % tileset.width) * TileSize
                  /\ y = (i \div tileset.width) * TileSize
                  /\ x + TileSize <= final_resolution(tileset)[1]
                  /\ y + TileSize <= final_resolution(tileset)[2]
                  /\ Allocated => <<x, y>> \in DOMAIN output_image
                  /\ (pcConsumer = "done" /\ Succeeded(i)) =>
                        output_image[<<(tiles[i + 1][2] - tileset.left) * TileSize,
                                       (tiles[i + 1][3] - tileset.top) * TileSize>>]
                            = Heightmap(Emitted(i))

\* A TileSet wider than high, completely fetched and placed.
C5_Witness ==
    /\ pcConsumer = "done"
    /\ tileset.width = 2 /\ tileset.height = 1
    /\ \A i \in Indices : Succeeded(i)
    /\ output_image[<<TileSize, 0>>] = Heightmap(ServiceBody(<<zoom, tileset.right, tileset.top>>))

\* C6: a tile that an earlier run fetched successfully is served from the
\* cache in every later run: no GET is sent for it, no response arrives for
\* it, its file is in the cache, and what its task emits is the cached file.
C6_SecondRunUsesCache ==
    \A i \in Indices :
        Coords(i) \in cachedBefore =>
            /\ requests[i] = 0
            /\ responses[i] = 0
            /\ PathOf(i) \in DOMAIN cache
            /\ pcTask[i] # "get"
            /\ \A k \in 1 .. Len(queue) :
                  (queue[k].kind = "tile" /\ queue[k].tile_index = i) =>
                      queue[k].data = cache[PathOf(i)]

\* In a second run a tile fetched over HTTP by the first run has been put on
\* the queue from the cache.
C6_Witness ==
    /\ run = 2
    /\ \E i \in Indices :
          /\ Coords(i) \in cachedBefore
          /\ pcTask[i] = "done"
          /\ InQueue(i)
          /\ cache[PathOf(i)] = ServiceBody(Coords(i))

\* C7: when a task that received HTTP 200 has returned, the tile's cache
\* file exists and holds exactly the body the task read and put on the queue.
C7_PersistedBeforeReturn ==
    \A i \in Indices :
        (pcTask[i] = "done" /\ responses[i] = HTTP_OK) =>
            /\ PathOf(i) \in DOMAIN cache
            /\ cache[PathOf(i)] = image_data[i]
            /\ \A k \in 1 .. Len(queue) :
                  (queue[k].kind = "tile" /\ queue[k].tile_index = i) =>
                      queue[k].data = cache[PathOf(i)]

\* A task has returned after HTTP 200 and its message is still on the queue.
C7_Witness ==
    \E i \in Indices :
        /\ pcTask[i] = "done"
        /\ responses[i] = HTTP_OK
        /\ InQueue(i)
        /\ cache[PathOf(i)] = ServiceBody(Coords(i))

\* C8: a task whose GET was answered with a non-200 status has ended
\* normally, has sent exactly one GET, has read no body, has put no message
\* on the queue (none waits there and none was placed) and has left no cache
\* file for its tile.
C8_FailureIsLocal ==
    \A i \in Indices :
        Failed(i) =>
            /\ pcTask[i] = "done"
            /\ requests[i] = 1
            /\ image_data[i] = <<>>
            /\ ~InQueue(i)
            /\ \A o \in DOMAIN output_image :
                  output_image[o] # Heightmap(ServiceBody(Coords(i)))
            /\ PathOf(i) \notin DOMAIN cache

\* A run completed although a tile failed.
C8_Witness ==
    /\ pcMain = "done"
    /\ \E i \in Indices : Failed(i) /\ requests[i] = 1
    /\ \E i \in Indices : Succeeded(i)

\* C9: tiles() lists exactly the coordinates of the rectangle
\* [left, right] x [top, bottom], each once, row by row (y outer, x inner),
\* and count() = width * height = len(tiles()).
C9_TilesEnumeration ==
    pcMain = "enumerated" =>
        /\ count(tileset) = tileset.width * tileset.height
        /\ Len(tiles) = count(tileset)
        /\ {tiles[k] : k \in 1 .. Len(tiles)}
              = {<<tileset.zoom, x, y>> : x \in tileset.left .. tileset.right,
                                          y \in tileset.top .. tileset.bottom}
        /\ \A k, l \in 1 .. Len(tiles) : tiles[k] = tiles[l] => k = l
        /\ \A k \in 1 .. Len(tiles) :
              tiles[k] = <<tileset.zoom,
                           tileset.left + ((k - 1) % tileset.width),
                           tileset.top + ((k - 1) \div tileset.width)>>

\* A TileSet of two columns and three rows has been enumerated.
C9_Witness ==
    /\ pcMain = "enumerated"
    /\ tileset.width = 2 /\ tileset.height = 3
    /\ Len(tiles) = 6

\* The box lies inside one tile: both corners fall into the same column and
\* the same row of the tile grid, stated without the floor of the projector.
InsideOneTile(box, z) ==
    \E tx, ty \in 0 .. Power2(z) :
        /\ tx * 2 * HalfUnits <= (HalfUnits + box[1]) * Power2(z)
        /\ (HalfUnits + box[3]) * Power2(z) < (tx + 1) * 2 * HalfUnits
        /\ ty * 2 * HalfUnits <= (HalfUnits - box[4]) * Power2(z)
        /\ (HalfUnits - box[2]) * Power2(z) < (ty + 1) * 2 * HalfUnits

\* C10: for every box with right > left and top > bottom inside the world
\* the TileSet has width >= 1 and height >= 1, its extents are the numbers
\* of tile columns and rows between the corners, and a box inside one tile
\* gives width = 1 and height = 1.
C10_ExtentsAtLeastOne ==
    (pcMain # "input" /\ bounding_box[3] > bounding_box[1]
                      /\ bounding_box[4] > bounding_box[2]) =>
        /\ tileset.width >= 1
        /\ tileset.height >= 1
        /\ InsideOneTile(bounding_box, zoom) =>
              (tileset.width = 1 /\ tileset.height = 1)

\* A box inside one tile at the deepest zoom, and its 1x1 TileSet.
C10_Witness ==
    /\ pcMain = "tileset"
    /\ zoom >= 2
    /\ InsideOneTile(bounding_box, zoom)
    /\ tileset.width = 1 /\ tileset.height = 1

\* C11: epsg_3857_to_tile is monotonic in each axis at a fixed zoom: a
\* coordinate further east never gets a smaller tile column, a coordinate
\* further north never gets a larger tile row.
C11_TileMonotonic ==
    probe.kind = "tiles" =>
        /\ probe.in[1][1] <= probe.in[2][1] => probe.out[1][1] <= probe.out[2][1]
        /\ probe.in[1][2] <= probe.in[2][2] => probe.out[1][2] >= probe.out[2][2]

\* Two coordinates, the second north-east of the first, projected to
\* different tiles: a larger column and a smaller row.
C11_Witness ==
    /\ probe.kind = "tiles"
    /\ probe.in[1][1] < probe.in[2][1] /\ probe.in[1][2] < probe.in[2][2]
    /\ probe.out[1][1] < probe.out[2][1] /\ probe.out[1][2] > probe.out[2][2]

\* C12: for byte channels R, G, B the decoder yields
\* max(0, R*256 + G + B/256 - 32768), here in 1/256 m, without wrap-around
\* of the channel arithmetic; (0,0,0) and (128,0,0) both decode to 0.
C12_DecodeFormula ==
    probe.kind = "height" =>
        LET raw == probe.in[1] * 65536 + probe.in[2] * 256 + probe.in[3]
                       - 32768 * 256
        IN  /\ probe.out = IF raw < 0 THEN 0 ELSE raw
            /\ probe.in = <<0, 0, 0>> => probe.out = 0
            /\ probe.in = <<128, 0, 0>> => probe.out = 0

\* The largest pixel decoded: red * 256 + green is 65535, past uint8.
C12_Witness ==
    /\ probe.kind = "height"
    /\ probe.in = <<255, 255, 255>>
    /\ probe.out = 32767 * 256 + 255

\* C13: normalizing a canvas whose values are all equal does not divide by
\* zero: the rescaling is never evaluated with max_val - min_val = 0 and
\* every value of the output is a well-defined number.
C13_FlatDoesNotDivideByZero ==
    (probe.kind = "normalized" /\ \A k \in DOMAIN probe.in : probe.in[k] = probe.in[1]) =>
        /\ probe.out.max_val # probe.out.min_val
        /\ \A k \in DOMAIN probe.in : probe.out.normalized_data[k][2] # 0

\* C14: the crop bounds come from the sub-tile offsets of both corners:
\* left_pixel and bottom_pixel from the bottom-left corner, right_pixel and
\* top_pixel from the top-right corner, right_pixel and bottom_pixel moved by
\* (width - 1) * 256 and (height - 1) * 256; the horizontal bounds slice the
\* canvas's horizontal axis (axis 0) and the vertical bounds its vertical
\* axis (axis 1).
C14_CropBoundsFromBothCorners ==
    pcMain # "input" =>
        LET bottom_left == epsg_3857_to_pixel(<<bounding_box[1], bounding_box[2]>>, zoom)
            top_right == epsg_3857_to_pixel(<<bounding_box[3], bounding_box[4]>>, zoom)
        IN  /\ tileset.left_pixel = bottom_left[1]
            /\ tileset.bottom_pixel = bottom_left[2] + (tileset.height - 1) * TileSize
            /\ tileset.right_pixel = top_right[1] + (tileset.width - 1) * TileSize
            /\ tileset.top_pixel = top_right[2]
            /\ CropSlices(tileset)[1] = <<tileset.left_pixel, tileset.right_pixel>>
            /\ CropSlices(tileset)[2] = <<tileset.top_pixel, tileset.bottom_pixel>>

\* C15: when every request is answered and no I/O error occurs, a run under
\* fair scheduling completes: every task ends, the sentinel is put, the
\* consumer reads it and returns and main gets the canvas.  While a fetch
\* waits for a response that has not come, the sentinel is not put and the
\* run is not complete.
C15_RunCompletes ==
    /\ (pcMain = "gather")
          ~> (pcMain = "done" /\ pcProducer = "done" /\ pcConsumer = "done"
                /\ queue = <<>> /\ \A i \in Indices : pcTask[i] = "done")
    /\ []((\E i \in Indices : pcTask[i] = "get") =>
              (pcProducer # "done" /\ Sentinels = {} /\ pcConsumer # "done"
                 /\ pcMain # "done"))

\* A first run of four tiles has completed, one tile refused by the service.
C15_Witness ==
    /\ pcMain = "done" /\ pcConsumer = "done" /\ run = 1
    /\ Indices = 0 .. 3
    /\ responses[0] = HTTP_OK /\ \E i \in Indices : Failed(i)

\* C16: an I/O failure raised inside a fetch task is fatal for the run: from
\* then on collect_tiles cannot put the sentinel, the consumer has not
\* returned and cannot make main go on to the crop, and the run can end
\* with the exception whatever the consumer is doing, so the consumer
\* waiting on the queue does not keep the run hanging.
C16_FetchErrorIsFatal ==
    (pcMain = "gather" /\ \E i \in Indices : pcTask[i] = "raised") =>
        /\ pcProducer = "gather"
        /\ Sentinels = {}
        /\ pcConsumer # "done"
        /\ ~ENABLED CollectDone
        /\ ~ENABLED MainDone
        /\ ENABLED MainAbort

\* The write of a fetched tile failed while the consumer, having placed
\* every tile put so far, waits on the empty queue.
C16_Witness ==
    /\ pcMain = "gather"
    /\ pcConsumer = "get" /\ queue = <<>>
    /\ \E i \in Indices :
          pcTask[i] = "raised" /\ responses[i] = HTTP_OK /\ ~is_file(PathOf(i))

\* C17: every step of collect_tiles and of a download_tile task leaves the
\* canvas, the progress count and the consumer's position unchanged; all it
\* does to what the consumer reads is to append messages to the queue.
C17_ProducersLeaveCanvas ==
    [][(\/ CollectStart
        \/ CollectDone
        \/ \E i \in Indices : DownloadStart(i)
        \/ \E i \in Indices : ResponseArrives(i))
          => /\ output_image' = output_image
             /\ t' = t
             /\ pcConsumer' = pcConsumer
             /\ \/ queue' = queue
                \/ \E i \in Indices, data \in {cache[p] : p \in DOMAIN cache}
                                          \cup {ServiceBody(c) : c \in Range(tiles)} :
                       queue' = Append(queue, TileMsg(i, data))
                \/ queue' = Append(queue, NoneMsg)]_vars

\* A fetch task has put its tile on the queue while the consumer had already
\* placed another one: the canvas holds one tile, the queue the next.
C17_Witness ==
    /\ pcConsumer = "get" /\ t = 1
    /\ Len(queue) = 1 /\ queue[1].kind = "tile"
    /\ \E o \in DOMAIN output_image : output_image[o] # 0

\* The positions of the queue that hold the tile of tile_index i, and the
\* corner of the region process_tiles writes for tile_index i.
QueuedAt(i) == {k \in 1 .. Len(queue) :
                   queue[k].kind = "tile" /\ queue[k].tile_index = i}
RegionOf(i) == <<PlaceX(i, <<tileset.width, tileset.height>>),
                 PlaceY(i, <<tileset.width, tileset.height>>)>>

\* C18: within a run each tile_index is emitted at most once (it is on the
\* queue at most once, and not at all once its region is written), each
\* region of the canvas is written at most once (the number of writes is
\* the number of written regions), the regions of distinct tile indices do
\* not overlap, and main reads the canvas only after producer and consumer
\* have both finished.
C18_EmittedAndWrittenOnce ==
    /\ \A i \in Indices :
          /\ Cardinality(QueuedAt(i)) <= 1
          /\ (QueuedAt(i) # {} /\ Allocated /\ RegionOf(i) \in DOMAIN output_image)
                 => output_image[RegionOf(i)] = 0
    /\ Allocated =>
          t = Cardinality({o \in DOMAIN output_image : output_image[o] # 0})
    /\ \A i, j \in Indices :
          i # j => \/ RegionOf(i)[1] + TileSize <= RegionOf(j)[1]
                   \/ RegionOf(j)[1] + TileSize <= RegionOf(i)[1]
                   \/ RegionOf(i)[2] + TileSize <= RegionOf(j)[2]
                   \/ RegionOf(j)[2] + TileSize <= RegionOf(i)[2]
    /\ pcMain = "done" => (pcProducer = "done" /\ pcConsumer = "done")

\* Main has the canvas of a 2x2 TileSet, each of whose four regions was
\* written, once.
C18_Witness ==
    /\ pcMain = "done"
    /\ t = 4
    /\ Indices = 0 .. 3
    /\ \A i \in Indices : output_image[RegionOf(i)] # 0

\* C19: a cache entry is immutable once written.  No step changes or
\* removes a file that exists; a file is created only by the fetch task of
\* its tile, which found no file, sent the GET and now received HTTP 200;
\* and no other task of the run has the path of the file written.
C19_CacheEntriesImmutable ==
    [][cache' # cache =>
         /\ \A p \in DOMAIN cache : p \in DOMAIN cache' /\ cache'[p] = cache[p]
         /\ \A p \in DOMAIN cache' \ DOMAIN cache :
               \E i \in Indices :
                  /\ p = PathOf(i)
                  /\ pcTask[i] = "get" /\ requests[i] = 1
                  /\ responses'[i] = HTTP_OK
                  /\ \A j \in Indices \ {i} : PathOf(j) # p]_vars

\* In a second run one task was served the file the first run wrote, still
\* holding the tile's body, and another task wrote a new file.
C19_Witness ==
    /\ run = 2
    /\ \E i, j \in Indices :
          /\ pcTask[i] = "done" /\ requests[i] = 0
          /\ cache[PathOf(i)] = ServiceBody(Coords(i))
          /\ pcTask[j] = "done" /\ responses[j] = HTTP_OK
          /\ cache[PathOf(j)] = ServiceBody(Coords(j))

\* C20: for every valid box and zoom, a 1x1 TileSet included, the crop
\* window of main is non-empty and inside the canvas:
\* top_pixel < bottom_pixel <= the extent of the axis it slices (axis 0),
\* left_pixel < right_pixel <= the extent of the axis it slices (axis 1),
\* so the cropped raster has at least one pixel.
C20_CropWindowNonEmpty ==
    (pcMain # "input" /\ bounding_box[3] > bounding_box[1]
                      /\ bounding_box[4] > bounding_box[2]) =>
        /\ tileset.top_pixel < tileset.bottom_pixel
        /\ tileset.bottom_pixel <= CanvasShape(tileset)[1]
        /\ tileset.left_pixel < tileset.right_pixel
        /\ tileset.right_pixel <= CanvasShape(tileset)[2]
        /\ CropShape(tileset)[1] >= 1
        /\ CropShape(tileset)[2] >= 1

=============================================================================
